---- MODULE Spec2Model ----
(***************************************************************************)
(* The merge plugin of obsidian-md-merge (main.ts): mergeMarkdownFiles,    *)
(* ensureFolderExists, collectMarkdownFiles and the settings tab's         *)
(* onChange callbacks, over an in-memory vault.                            *)
(*                                                                         *)
(* A string is a sequence of tokens.  A token is one character ("a", ".",  *)
(* "/", " ", ...) or an indivisible run of characters that the code never  *)
(* looks into ("merged-output-", "{date}", an ISO date).  A path is such a *)
(* string with "/" between its segments, as TAbstractFile.path is.         *)
(*                                                                         *)
(* One merge invocation is in flight at a time; the settings tab's         *)
(* callbacks and the change of date run whenever the invocation is idle or *)
(* suspended at an awaited vault operation.                                *)
(***************************************************************************)
EXTENDS Integers, Sequences, FiniteSets, TLC

\* ---------------------------------------------------------------- bounds
\* how many merge invocations a behaviour starts
MaxRuns == 2
\* how many times the settings tab's callbacks fire in a behaviour
MaxChanges == 1
\* how many days the behaviour spans
MaxDate == 2
\* how many files the vaults given to collectMarkdownFiles alone hold
MaxFiles == 3

\* ------------------------------------------------------- string helpers
Last(s) == s[Len(s)]
Front(s) == SubSeq(s, 1, Len(s) - 1)

\* white space, as String.prototype.trim sees it
IsSpace(c) == c \in {" ", "\n"}

RECURSIVE trimStart(_)
trimStart(s) ==
    IF s # <<>> /\ IsSpace(Head(s)) THEN trimStart(Tail(s)) ELSE s

RECURSIVE trimEnd(_)
trimEnd(s) ==
    IF s # <<>> /\ IsSpace(Last(s)) THEN trimEnd(Front(s)) ELSE s

\* String.prototype.trim
trim(s) == trimEnd(trimStart(s))

\* String.prototype.split(sep) for a one-token separator: "" splits to [""]
RECURSIVE split(_, _)
split(s, sep) ==
    IF s = <<>> THEN << <<>> >>
    ELSE LET rest == split(Tail(s), sep)
         IN  IF Head(s) = sep THEN << <<>> >> \o rest
             ELSE << <<Head(s)>> \o Head(rest) >> \o Tail(rest)

\* String.prototype.toLowerCase on the letters of the alphabet used here
lowerChar(c) ==
    CASE c = "M" -> "m"
      [] c = "D" -> "d"
      [] OTHER -> c

toLowerCase(s) == [i \in 1..Len(s) |-> lowerChar(s[i])]

\* String.prototype.endsWith
endsWith(s, suffix) ==
    /\ Len(s) >= Len(suffix)
    /\ SubSeq(s, Len(s) - Len(suffix) + 1, Len(s)) = suffix

\* String.prototype.startsWith
startsWith(s, prefix) ==
    /\ Len(s) >= Len(prefix)
    /\ SubSeq(s, 1, Len(prefix)) = prefix

\* String.prototype.replace(pattern, by): the first occurrence only
RECURSIVE replaceFirst(_, _, _)
replaceFirst(s, tok, by) ==
    IF s = <<>> THEN <<>>
    ELSE IF Head(s) = tok THEN by \o Tail(s)
    ELSE <<Head(s)>> \o replaceFirst(Tail(s), tok, by)

RECURSIVE stripLeadingSlashes(_)
stripLeadingSlashes(s) ==
    IF s # <<>> /\ Head(s) = "/" THEN stripLeadingSlashes(Tail(s)) ELSE s

RECURSIVE stripTrailingSlashes(_)
stripTrailingSlashes(s) ==
    IF s # <<>> /\ Last(s) = "/" THEN stripTrailingSlashes(Front(s)) ELSE s

\* outputFolder.replace(/^\/+|\/+$/g, '')
stripSlashes(s) == stripTrailingSlashes(stripLeadingSlashes(s))

\* the index of the last occurrence of tok in s, 0 when there is none
lastIndexOf(s, tok) ==
    LET hits == {i \in 1..Len(s) : s[i] = tok}
    IN  IF hits = {} THEN 0 ELSE CHOOSE i \in hits : \A j \in hits : j <= i

\* new Date().toISOString().split('T')[0]
DateStr == <<"2024-01-01", "2024-01-02", "2024-01-03", "2024-01-04">>
isoDate(day) == <<DateStr[day]>>

\* ------------------------------------------------ TAbstractFile fields
\* TAbstractFile.name: the last segment of the path
nameOf(path) == SubSeq(path, lastIndexOf(path, "/") + 1, Len(path))

\* TAbstractFile.parent.path: the path without its last segment ("" = root)
parentOf(path) ==
    LET k == lastIndexOf(path, "/")
    IN  IF k = 0 THEN <<>> ELSE SubSeq(path, 1, k - 1)

\* TFile.extension: what follows the last dot of the name
extension(path) ==
    LET n == nameOf(path)
        k == lastIndexOf(n, ".")
    IN  IF k = 0 THEN <<>> ELSE SubSeq(n, k + 1, Len(n))

\* TFile.basename: the name without its extension
basename(path) ==
    LET n == nameOf(path)
        k == lastIndexOf(n, ".")
    IN  IF k = 0 THEN n ELSE SubSeq(n, 1, k - 1)

\* ------------------------------------------------------- localeCompare
\* The collation order of the tokens: white space and punctuation sort
\* before digits, digits before letters, a lower-case letter before its
\* upper-case form.
Collation ==
    <<" ", "-", ".", "2024-01-01", "2024-01-02", "2024-01-03", "2024-01-04",
      "a", "b", "d", "D", "h", "m", "M", "merged-output-", "o", "s", "t", "x">>

Rank(c) == CHOOSE i \in 1..Len(Collation) : Collation[i] = c

\* String.prototype.localeCompare: negative, zero or positive
RECURSIVE localeCompare(_, _)
localeCompare(a, b) ==
    IF a = <<>> /\ b = <<>> THEN 0
    ELSE IF a = <<>> THEN -1
    ELSE IF b = <<>> THEN 1
    ELSE IF Rank(Head(a)) < Rank(Head(b)) THEN -1
    ELSE IF Rank(Head(a)) > Rank(Head(b)) THEN 1
    ELSE localeCompare(Tail(a), Tail(b))

\* a comparator that orders nothing (a sort that was left out)
compareNothing(a, b) == 0

\* the comparator of collectMarkdownFiles' sort: by TFile.name
compareFiles(a, b) == localeCompare(nameOf(a), nameOf(b))

\* x put into the sorted sequence after every element that is not greater
RECURSIVE insertSorted(_, _)
insertSorted(sorted, x) ==
    IF sorted = <<>> THEN <<x>>
    ELSE IF compareFiles(Last(sorted), x) > 0
         THEN insertSorted(Front(sorted), x) \o <<Last(sorted)>>
         ELSE sorted \o <<x>>

\* Array.prototype.sort with compareFiles: a stable sort
RECURSIVE sortFiles(_)
sortFiles(fs) ==
    IF fs = <<>> THEN <<>> ELSE insertSorted(sortFiles(Front(fs)), Last(fs))

\* ----------------------------------------------------------- minimatch
\* tokens of p against tokens of s, "*" standing for any run of tokens
RECURSIVE globTokens(_, _)
globTokens(p, s) ==
    IF p = <<>> THEN s = <<>>
    ELSE IF Head(p) = "*"
         THEN globTokens(Tail(p), s) \/ (s # <<>> /\ globTokens(p, Tail(s)))
         ELSE s # <<>> /\ Head(p) = Head(s) /\ globTokens(Tail(p), Tail(s))

IsDotSegment(s) == s # <<>> /\ Head(s) = "."

\* one pattern segment against one path segment; a leading dot of the path
\* segment is matched by a literal dot only
matchSegment(p, s) ==
    /\ IsDotSegment(s) => IsDotSegment(p)
    /\ globTokens(p, s)

\* pattern segments against path segments; "**" stands for any number of
\* segments none of which starts with a dot
RECURSIVE matchSegments(_, _)
matchSegments(ps, ss) ==
    IF ps = <<>> THEN ss = <<>>
    ELSE IF Head(ps) = <<"**">>
         THEN \/ matchSegments(Tail(ps), ss)
              \/ /\ ss # <<>>
                 /\ ~IsDotSegment(Head(ss))
                 /\ matchSegments(ps, Tail(ss))
         ELSE /\ ss # <<>>
              /\ matchSegment(Head(ps), Head(ss))
              /\ matchSegments(Tail(ps), Tail(ss))

\* minimatch(path, pattern) with the default options
minimatch(path, pattern) ==
    matchSegments(split(pattern, "/"), split(path, "/"))

\* ---------------------------------------------------------- the vault
\* The vault is the listing of its nodes (the root, "", is not listed): a
\* folder's children are the nodes below it, in the order of the listing.
childrenOf(vlt, folderPath) ==
    SelectSeq(vlt, LAMBDA n : parentOf(n.path) = folderPath)

\* Vault.getFolderByPath: is there a folder at the path
hasFolder(vlt, path) ==
    \E i \in 1..Len(vlt) : vlt[i].path = path /\ vlt[i].isFolder

\* Vault.getFileByPath: is there a file at the path
hasFile(vlt, path) ==
    \E i \in 1..Len(vlt) : vlt[i].path = path /\ ~vlt[i].isFolder

hasNode(vlt, path) == \E i \in 1..Len(vlt) : vlt[i].path = path

\* Vault.read
dataOf(vlt, path) ==
    vlt[CHOOSE i \in 1..Len(vlt) : vlt[i].path = path /\ ~vlt[i].isFolder].data

\* Vault.createFolder
withFolder(vlt, path) ==
    Append(vlt, [path |-> path, isFolder |-> TRUE, data |-> <<>>])

\* Vault.create
withFile(vlt, path, data) ==
    Append(vlt, [path |-> path, isFolder |-> FALSE, data |-> data])

\* Vault.modify
withData(vlt, path, data) ==
    [i \in 1..Len(vlt) |->
        IF vlt[i].path = path /\ ~vlt[i].isFolder
        THEN [vlt[i] EXCEPT !.data = data] ELSE vlt[i]]

\* ------------------------------------------------ collectMarkdownFiles
\* the traversal takes every folder, whatever the setting
descendsAlways(child, recursive) == child.isFolder

\* line 154: a child folder is pushed on the stack in recursive mode only
descends(child, recursive) == child.isFolder /\ recursive

\* the filter without the comparison with the output path
isEligibleNoSelfCheck(child, outputPath, excludedPatterns, includeHidden) ==
    /\ ~child.isFolder
    /\ extension(child.path) = <<"m", "d">>
    /\ ~\E k \in 1..Len(excludedPatterns) :
            minimatch(child.path, excludedPatterns[k])
    /\ (includeHidden \/ ~startsWith(nameOf(child.path), <<".">>))

\* the filter with the hidden-file test left out
isEligibleNoHiddenCheck(child, outputPath, excludedPatterns, includeHidden) ==
    /\ ~child.isFolder
    /\ extension(child.path) = <<"m", "d">>
    /\ child.path # outputPath
    /\ ~\E k \in 1..Len(excludedPatterns) :
            minimatch(child.path, excludedPatterns[k])

\* lines 157-161: the filter a child file passes to be merged
isEligible(child, outputPath, excludedPatterns, includeHidden) ==
    /\ ~child.isFolder
    /\ extension(child.path) = <<"m", "d">>
    /\ child.path # outputPath
    /\ ~\E k \in 1..Len(excludedPatterns) :
            minimatch(child.path, excludedPatterns[k])
    /\ (includeHidden \/ ~startsWith(nameOf(child.path), <<".">>))

\* the for loop over current.children: <<stack, files>> after the children
RECURSIVE visitChildren(_, _, _, _, _, _)
visitChildren(kids, stack, fs, outputPath, excludedPatterns, cfg) ==
    IF kids = <<>> THEN <<stack, fs>>
    ELSE LET child == Head(kids)
         IN  IF descends(child, cfg.recursive)
             THEN visitChildren(Tail(kids), Append(stack, child.path), fs,
                                outputPath, excludedPatterns, cfg)
             ELSE IF isEligible(child, outputPath, excludedPatterns,
                                cfg.includeHidden)
             THEN visitChildren(Tail(kids), stack, Append(fs, child.path),
                                outputPath, excludedPatterns, cfg)
             ELSE visitChildren(Tail(kids), stack, fs,
                                outputPath, excludedPatterns, cfg)

\* the while loop over the stack: the files in the order they were pushed
RECURSIVE walk(_, _, _, _, _, _)
walk(vlt, stack, fs, outputPath, excludedPatterns, cfg) ==
    IF stack = <<>> THEN fs
    ELSE LET current == Last(stack)
             r == visitChildren(childrenOf(vlt, current), Front(stack), fs,
                                outputPath, excludedPatterns, cfg)
         IN  walk(vlt, r[1], r[2], outputPath, excludedPatterns, cfg)

\* the folders the while loop pops, the source folder first
RECURSIVE visitedFolders(_, _, _)
visitedFolders(vlt, stack, cfg) ==
    IF stack = <<>> THEN {}
    ELSE LET current == Last(stack)
             kids == childrenOf(vlt, current)
             pushed == SelectSeq(kids, LAMBDA c : descends(c, cfg.recursive))
         IN  {current} \cup
             visitedFolders(vlt,
                 Front(stack) \o [i \in 1..Len(pushed) |-> pushed[i].path], cfg)

\* collectMarkdownFiles(folder, outputPath, excludedPatterns), reading
\* this.settings.recursive and this.settings.includeHidden
collectMarkdownFiles(vlt, folder, outputPath, excludedPatterns, cfg) ==
    sortFiles(walk(vlt, <<folder>>, <<>>, outputPath, excludedPatterns, cfg))

\* ------------------------------------------------------------ settings
\* DEFAULT_SETTINGS (showRibbonIcon plays no part in a merge)
DEFAULT_SETTINGS ==
    [folderName |-> <<>>,
     outputFolder |-> <<"merged">>,
     outputFileName |-> <<"merged-output-", "{date}", ".", "m", "d">>,
     includeHidden |-> FALSE,
     excludedFiles |-> <<>>,
     recursive |-> FALSE]

\* what the user types into the settings tab's text fields
FolderNameInputs == { <<>>, <<" ", "n">>, <<"x">> }
OutputFolderInputs == { <<>>, <<"/", "a", "/", "b", "/">> }
OutputFileNameInputs == { <<"o", " ">>, <<"a", ".", "m", "d">> }
ExcludedFilesInputs == { <<" ", ",", "**", "/", "*", ".", "m", "d">> }

\* ------------------------------------------------- mergeMarkdownFiles
\* lines 80-87: the output file name, from the template and the day
resolveOutputFileName(cfg, day) ==
    LET dated == replaceFirst(trim(cfg.outputFileName), "{date}", isoDate(day))
    IN  IF ~endsWith(toLowerCase(dated), <<".", "m", "d">>)
        THEN dated \o <<".", "m", "d">> ELSE dated

\* lines 79, 89: the output folder without its outer slashes
resolveFolderPath(cfg) == stripSlashes(trim(cfg.outputFolder))

\* line 90
resolveOutputPath(folderPath, outputFileName) ==
    IF folderPath # <<>> THEN folderPath \o <<"/">> \o outputFileName
    ELSE outputFileName

\* lines 100-103: the exclusion patterns of the comma-separated setting
parseExcluded(excludedFiles) ==
    LET items == split(excludedFiles, ",")
        trimmed == [i \in 1..Len(items) |-> trim(items[i])]
    IN  SelectSeq(trimmed, LAMBDA x : x # <<>>)

\* line 117: one section of the merged content
section(path, content) ==
    <<"# ">> \o basename(path) \o <<"\n\n">> \o trim(content) \o <<"\n\n">>

\* the merged content of the files whose contents were read from vlt
RECURSIVE render(_, _)
render(vlt, fs) ==
    IF fs = <<>> THEN <<>>
    ELSE render(vlt, Front(fs)) \o section(Last(fs), dataOf(vlt, Last(fs)))

\* ------------------------------------------------- ensureFolderExists
\* currentPath after the loop has taken the first j parts
RECURSIVE prefixPath(_, _)
prefixPath(parts, j) ==
    IF j = 1 THEN parts[1]
    ELSE prefixPath(parts, j - 1) \o <<"/">> \o parts[j]

\* a createFolder for every part, present or not
folderMissingAlways(vlt, path) == TRUE

\* lines 140-141: the folder of this prefix is not there yet
folderMissing(vlt, path) == ~hasFolder(vlt, path)

\* the first part from i on whose folder is missing; Len(parts) + 1 if none
RECURSIVE nextMissing(_, _, _)
nextMissing(vlt, parts, i) ==
    IF i > Len(parts) THEN i
    ELSE IF folderMissing(vlt, prefixPath(parts, i)) THEN i
    ELSE nextMissing(vlt, parts, i + 1)

\* --------------------------------------------------------------- state
VARIABLES
    vault,      \* the listing of the vault's nodes
    settings,   \* this.settings
    today,      \* the day of the wall clock when it was last read
    pc,         \* where the merge invocation is: idle or at an await
    frame,      \* the locals of the merge invocation
    log,        \* what the invocation in flight, or the last one, did
    prev,       \* the log of the invocation before it
    runs,       \* merge invocations started
    changes     \* settings callbacks fired

vars == <<vault, settings, today, pc, frame, log, prev, runs, changes>>

File(path, data) == [path |-> path, isFolder |-> FALSE, data |-> data]
Folder(path) == [path |-> path, isFolder |-> TRUE, data |-> <<>>]

\* the notes of the vaults a behaviour starts from
NoteA == File(<<"a", ".", "m", "d">>, <<" ", "x", "\n">>)
NoteAB == File(<<"a", "-", "b", ".", "m", "d">>, <<"x", " ", "b">>)
NoteHidden == File(<<".", "h", ".", "m", "d">>, <<"h">>)
NoteText == File(<<"b", ".", "t", "x", "t">>, <<"t">>)
NoteNA == File(<<"n", "/", "a", ".", "m", "d">>, <<"o">>)
NoteNSB == File(<<"n", "/", "s", "/", "b", ".", "m", "d">>, <<"s">>)
NoteNTB == File(<<"n", "/", "t", "/", "b", ".", "m", "d">>, <<"t">>)

SmallVault == <<Folder(<<"n">>), NoteA, NoteAB, NoteHidden, NoteNA>>

InitialVaults == { <<>>, SmallVault }

NoFrame ==
    [folder |-> <<>>, outputPath |-> <<>>, folderPath |-> <<>>, part |-> 0,
     files |-> <<>>, idx |-> 0, mergedContent |-> <<>>, writeOp |-> "none"]

NoLog ==
    [outcome |-> "none", notices |-> <<>>, thrown |-> FALSE,
     created |-> <<>>, writes |-> 0, reads |-> 0,
     vault0 |-> <<>>, cfg0 |-> DEFAULT_SETTINGS, date0 |-> 0,
     folder |-> <<>>, folderPath |-> <<>>, outputPath |-> <<>>,
     ensured |-> FALSE, collected |-> FALSE,
     files |-> <<>>, written |-> <<>>, tainted |-> FALSE]

Init ==
    /\ vault \in InitialVaults
    /\ settings = DEFAULT_SETTINGS
    /\ today = 1
    /\ pc = "idle"
    /\ frame = NoFrame
    /\ log = NoLog
    /\ prev = NoLog
    /\ runs = 0
    /\ changes = 0

\* ------------------------------------------------ the merge invocation
\* The code between two awaited vault operations runs as one step.  Each
\* operator below is the code from one point on, up to the next await or
\* the return: [pc, frame, log] as they are there.  The await of an
\* ensureFolderExists that called no createFolder resumes in a microtask,
\* before any callback of the settings tab can run, so it ends no step.
\* A read that rejects is not caught: log.thrown records the rejection that
\* leaves mergeMarkdownFiles.  The toggle of the ribbon icon reloads the
\* window and is left out.

Ended(fr, lg, outcome, notice) ==
    [pc |-> "idle", frame |-> NoFrame,
     log |-> [lg EXCEPT !.outcome = outcome,
                        !.notices = Append(@, notice)]]

\* lines 120-126: the look-up of the output file and the call of modify
\* or create
WriteFrom(vlt, fr, lg) ==
    [pc |-> "write",
     frame |-> [fr EXCEPT !.writeOp =
                    IF hasFile(vlt, fr.outputPath) THEN "modify" ELSE "create"],
     log |-> [lg EXCEPT !.writes = @ + 1]]

\* the loop stops after the first file
allReadAfterFirst(fr) == fr.idx > 1

\* line 114: the for loop has taken every file
allRead(fr) == fr.idx > Len(fr.files)

\* lines 114-115: the next read, or the write when the loop is through
ReadFrom(vlt, fr, lg) ==
    IF allRead(fr) THEN WriteFrom(vlt, fr, lg)
    ELSE [pc |-> "read", frame |-> fr, log |-> lg]

\* a selection is never taken to be empty
nothingToMergeNever(fs) == FALSE

\* line 107
nothingToMerge(fs) == Len(fs) = 0

\* lines 100-112: the patterns, the collection and the empty selection
CollectFrom(vlt, fr, lg, cfg) ==
    LET fs == collectMarkdownFiles(vlt, fr.folder, fr.outputPath,
                                   parseExcluded(cfg.excludedFiles), cfg)
        fr1 == [fr EXCEPT !.files = fs, !.idx = 1, !.mergedContent = <<>>]
        lg1 == [lg EXCEPT !.ensured = TRUE, !.collected = TRUE, !.files = fs]
    IN  IF nothingToMerge(fs)
        THEN Ended(fr1, lg1, "empty", "NothingToMerge")
        ELSE ReadFrom(vlt, fr1, lg1)

\* lines 135-143: ensureFolderExists from part i on, up to its next
\* createFolder; lines 93, 100: back in mergeMarkdownFiles when it returns
EnsureFrom(vlt, fr, lg, cfg, i) ==
    LET parts == split(fr.folderPath, "/")
        j == nextMissing(vlt, parts, i)
    IN  IF fr.folderPath = <<>> \/ j > Len(parts)
        THEN CollectFrom(vlt, fr, lg, cfg)
        ELSE [pc |-> "createFolder",
              frame |-> [fr EXCEPT !.part = j],
              log |-> [lg EXCEPT !.created = Append(@, prefixPath(parts, j))]]

\* lines 65-98: the ribbon icon or the command starts a merge; line 82 reads
\* the clock, which has not gone back since it was last read
MergeStart ==
    /\ pc = "idle"
    /\ runs < MaxRuns
    /\ \E day \in today..MaxDate : today' = day
    /\ LET lg0 == [NoLog EXCEPT !.vault0 = vault, !.cfg0 = settings,
                                !.date0 = today']
           folderPath == resolveFolderPath(settings)
           outputPath == resolveOutputPath(folderPath,
                             resolveOutputFileName(settings, today'))
           folder == IF trim(settings.folderName) = <<>> THEN <<>>
                     ELSE settings.folderName
           fr == [NoFrame EXCEPT !.folder = folder,
                                 !.outputPath = outputPath,
                                 !.folderPath = folderPath]
           r == IF trim(settings.folderName) # <<>>
                   /\ ~hasFolder(vault, settings.folderName)
                THEN Ended(NoFrame, lg0, "notfound", "NotFound")
                ELSE EnsureFrom(vault, fr,
                                [lg0 EXCEPT !.folder = folder,
                                            !.folderPath = folderPath,
                                            !.outputPath = outputPath],
                                settings, 1)
       IN  /\ pc' = r.pc
           /\ frame' = r.frame
           /\ log' = r.log
    /\ prev' = IF log.outcome = "none" THEN prev ELSE log
    /\ runs' = runs + 1
    /\ UNCHANGED <<vault, settings, changes>>

\* line 142: createFolder resolves
CreateFolderDone ==
    /\ pc = "createFolder"
    /\ LET path == prefixPath(split(frame.folderPath, "/"), frame.part)
       IN  /\ ~hasNode(vault, path)
           /\ vault' = withFolder(vault, path)
           /\ LET r == EnsureFrom(vault', frame, log, settings, frame.part + 1)
              IN  /\ pc' = r.pc
                  /\ frame' = r.frame
                  /\ log' = r.log
    /\ UNCHANGED <<settings, today, prev, runs, changes>>

\* lines 94-98: createFolder rejects
CreateFolderFail ==
    /\ pc = "createFolder"
    /\ LET r == Ended(frame, log, "folderfail", "FailedCreateFolder")
       IN  /\ pc' = r.pc
           /\ frame' = r.frame
           /\ log' = r.log
    /\ UNCHANGED <<vault, settings, today, prev, runs, changes>>

\* lines 115-118: read resolves
ReadDone ==
    /\ pc = "read"
    /\ LET file == frame.files[frame.idx]
       IN  /\ hasFile(vault, file)
           /\ LET fr == [frame EXCEPT
                           !.mergedContent = @ \o section(file, dataOf(vault, file)),
                           !.idx = @ + 1]
                  r == ReadFrom(vault, fr, [log EXCEPT !.reads = @ + 1])
              IN  /\ pc' = r.pc
                  /\ frame' = r.frame
                  /\ log' = r.log
    /\ UNCHANGED <<vault, settings, today, prev, runs, changes>>

\* line 115: read rejects, outside every try block
ReadFail ==
    /\ pc = "read"
    /\ pc' = "idle"
    /\ frame' = NoFrame
    /\ log' = [log EXCEPT !.outcome = "readfail", !.thrown = TRUE]
    /\ UNCHANGED <<vault, settings, today, prev, runs, changes>>

\* lines 123-127: modify or create resolves
WriteDone ==
    /\ pc = "write"
    /\ IF frame.writeOp = "modify"
       THEN /\ hasFile(vault, frame.outputPath)
            /\ vault' = withData(vault, frame.outputPath, frame.mergedContent)
       ELSE /\ ~hasNode(vault, frame.outputPath)
            /\ \/ parentOf(frame.outputPath) = <<>>
               \/ hasFolder(vault, parentOf(frame.outputPath))
            /\ vault' = withFile(vault, frame.outputPath, frame.mergedContent)
    /\ LET r == Ended(frame, [log EXCEPT !.written = frame.mergedContent],
                      "ok", "Merged")
       IN  /\ pc' = r.pc
           /\ frame' = r.frame
           /\ log' = r.log
    /\ UNCHANGED <<settings, today, prev, runs, changes>>

\* lines 128-131: modify or create rejects
WriteFail ==
    /\ pc = "write"
    /\ LET r == Ended(frame, log, "writefail", "FailedWrite")
       IN  /\ pc' = r.pc
           /\ frame' = r.frame
           /\ log' = r.log
    /\ UNCHANGED <<vault, settings, today, prev, runs, changes>>

\* ---------------------------------------------------- the settings tab
\* a callback of the settings tab runs while no merge code is running
Changed(cfg) ==
    /\ changes < MaxChanges
    /\ settings' = cfg
    /\ changes' = changes + 1
    /\ log' = IF pc = "idle" THEN log ELSE [log EXCEPT !.tainted = TRUE]
    /\ UNCHANGED <<vault, today, pc, frame, prev, runs>>

\* lines 191-194
OnChangeFolderName ==
    \E value \in FolderNameInputs :
        Changed([settings EXCEPT !.folderName = trim(value)])

\* lines 204-207
OnChangeOutputFolder ==
    \E value \in OutputFolderInputs :
        Changed([settings EXCEPT !.outputFolder = trim(value)])

\* lines 217-220
OnChangeOutputFileName ==
    \E value \in OutputFileNameInputs :
        Changed([settings EXCEPT !.outputFileName = trim(value)])

\* lines 229-232
OnChangeIncludeHidden ==
    \E value \in BOOLEAN : Changed([settings EXCEPT !.includeHidden = value])

\* lines 241-244
OnChangeRecursive ==
    \E value \in BOOLEAN : Changed([settings EXCEPT !.recursive = value])

\* lines 254-257
OnChangeExcludedFiles ==
    \E value \in ExcludedFilesInputs :
        Changed([settings EXCEPT !.excludedFiles = value])

Next ==
    \/ MergeStart
    \/ CreateFolderDone
    \/ CreateFolderFail
    \/ ReadDone
    \/ ReadFail
    \/ WriteDone
    \/ WriteFail
    \/ OnChangeFolderName
    \/ OnChangeOutputFolder
    \/ OnChangeOutputFileName
    \/ OnChangeIncludeHidden
    \/ OnChangeRecursive
    \/ OnChangeExcludedFiles

Spec == Init /\ [][Next]_vars

\* ------------------------------------- collectMarkdownFiles on its own
\* collectMarkdownFiles is a function of the vault, the source folder, the
\* output path, the patterns and two settings.  CollectSpec gives it every
\* vault of at most MaxFiles files, in every order of listing, under every
\* combination of the settings below.

NoteO == File(<<"o", ".", "m", "d">>, <<"# ", "a">>)
NoteNO == File(<<"n", "/", "o", ".", "m", "d">>, <<"# ", "a">>)

CollectNotes ==
    {NoteA, NoteAB, NoteHidden, NoteText, NoteNA, NoteNSB, NoteNTB,
     NoteO, NoteNO}

\* the listings of at most k of the notes, in every order
Arrangements(S, k) ==
    {s \in UNION {[1..m -> S] : m \in 0..k} :
        \A i, j \in 1..Len(s) : i # j => s[i] # s[j]}

CollectFolders ==
    { <<Folder(<<"n">>), Folder(<<"n", "/", "s">>), Folder(<<"n", "/", "t">>)>>,
      <<Folder(<<"n">>), Folder(<<"n", "/", "t">>), Folder(<<"n", "/", "s">>)>> }

CollectSettings ==
    [folderName : { <<>>, <<"n">> },
     outputFolder : { <<>>, <<"/", "n">> },
     outputFileName : { <<"o">>, <<"a", ".", "M", "D">> },
     includeHidden : BOOLEAN,
     excludedFiles : { <<>>,
                       <<"a", ".", "m", "d", ",", " ",
                         "n", "/", "*", "/", "*", ".", "m", "d">>,
                       <<" ", ",", "**", "/", "a", "*">> },
     recursive : BOOLEAN]

InitCollect ==
    /\ \E fs \in CollectFolders, ns \in Arrangements(CollectNotes, MaxFiles) :
            vault = fs \o ns
    /\ settings \in CollectSettings
    /\ today = 1
    /\ pc = "idle"
    /\ frame = NoFrame
    /\ log = NoLog
    /\ prev = NoLog
    /\ runs = 0
    /\ changes = 0

\* lines 79-90, 100-105: the output path, the patterns and the collection
CollectCall ==
    /\ pc = "idle"
    /\ LET folderPath == resolveFolderPath(settings)
           outputPath == resolveOutputPath(folderPath,
                             resolveOutputFileName(settings, today))
           folder == IF trim(settings.folderName) = <<>> THEN <<>>
                     ELSE settings.folderName
           fs == collectMarkdownFiles(vault, folder, outputPath,
                     parseExcluded(settings.excludedFiles), settings)
       IN  /\ frame' = [NoFrame EXCEPT !.folder = folder,
                                       !.outputPath = outputPath,
                                       !.folderPath = folderPath,
                                       !.files = fs]
    /\ pc' = "collected"
    /\ UNCHANGED <<vault, settings, today, log, prev, runs, changes>>

NextCollect == CollectCall

CollectSpec == InitCollect /\ [][NextCollect]_vars

\* ============================================================== claims
\* the files of a vault, without its folders
filesOf(vlt) == SelectSeq(vlt, LAMBDA n : ~n.isFolder)

\* the invocation the log describes has returned (or thrown)
Returned == pc = "idle" /\ log.outcome # "none"

\* path is among the files
Among(path, fs) == \E i \in 1..Len(fs) : fs[i] = path

\* the prefixes of an output folder path: a, a/b, ...
prefixesOf(folderPath) ==
    IF folderPath = <<>> THEN <<>>
    ELSE LET parts == split(folderPath, "/")
         IN  [j \in 1..Len(parts) |-> prefixPath(parts, j)]

\* ---- C1, under Spec
\* C1: whatever merges ran before, the files an invocation collects never
\* include the file at its output path, and what it writes is the rendering
\* of exactly the collected files.
C1_DestinationNeverCollected ==
    /\ log.collected => ~Among(log.outputPath, log.files)
    /\ (Returned /\ log.outcome = "ok") =>
            log.written = render(log.vault0, log.files)

\* an earlier merge left the output file in a folder the walk goes through,
\* and this invocation merged other files around it
C1_Witness ==
    /\ Returned /\ log.outcome = "ok" /\ ~log.tainted
    /\ hasFile(log.vault0, log.outputPath)
    /\ extension(log.outputPath) = <<"m", "d">>
    /\ parentOf(log.outputPath) \in
            visitedFolders(log.vault0, <<log.folder>>, log.cfg0)
    /\ prev.outcome = "ok"

\* ---- C2, under Spec
\* C2: an invocation that collects no file shows the nothing-to-merge
\* notice, calls neither create nor modify, and leaves every file of the
\* vault, the output file included, as it was.
C2_EmptySelectionWritesNothing ==
    (pc = "idle" /\ log.collected /\ Len(log.files) = 0) =>
        /\ log.notices = <<"NothingToMerge">>
        /\ log.writes = 0
        /\ filesOf(vault) = filesOf(log.vault0)

\* nothing was collected while the output file of an earlier merge exists
C2_Witness ==
    /\ pc = "idle" /\ log.collected /\ Len(log.files) = 0
    /\ hasFile(vault, log.outputPath)

\* ---- C3, under Spec
\* C3: two successive invocations under the same settings and date, no
\* setting changed while either ran, both reaching the write, write the
\* same content.
C3_Idempotence ==
    ( /\ Returned /\ log.outcome = "ok" /\ prev.outcome = "ok"
      /\ log.cfg0 = prev.cfg0 /\ log.date0 = prev.date0
      /\ ~log.tainted /\ ~prev.tainted )
    => log.written = prev.written

\* the first of the two runs created the output folder and the output file
\* inside the tree the second one walked
C3_Witness ==
    /\ Returned /\ log.outcome = "ok" /\ prev.outcome = "ok"
    /\ log.cfg0 = prev.cfg0 /\ log.date0 = prev.date0
    /\ ~log.tainted /\ ~prev.tainted
    /\ prev.created # <<>>
    /\ ~hasFile(prev.vault0, prev.outputPath)
    /\ parentOf(log.outputPath) \in
            visitedFolders(log.vault0, <<log.folder>>, log.cfg0)
    /\ Len(log.files) >= 2

\* ---- C5, under Spec
\* C5: every invocation that has ended has shown exactly one notice and has
\* thrown nothing to its caller.
C5_OneNoticeNoFault ==
    Returned => (Len(log.notices) = 1 /\ ~log.thrown)

\* ---- C8, under Spec
\* C8: the createFolder calls of an invocation are the missing prefixes of
\* the output folder, outermost first; the output file is written only when
\* all of them are there; and an invocation that follows one which got
\* through ensureFolderExists with the same output folder calls createFolder
\* not once and reports no folder-creation failure.
C8_FolderChain ==
    LET chain == prefixesOf(log.folderPath)
        missing0 == SelectSeq(chain, LAMBDA q : ~hasFolder(log.vault0, q))
    IN  /\ Len(log.created) <= Len(missing0)
        /\ log.created = SubSeq(missing0, 1, Len(log.created))
        /\ log.writes > 0 =>
              /\ log.created = missing0
              /\ \A j \in 1..Len(chain) : hasFolder(vault, chain[j])
        /\ (log.date0 # 0 /\ prev.ensured /\ prev.folderPath = log.folderPath) =>
              /\ log.created = <<>>
              /\ log.outcome # "folderfail"

\* the first invocation created a and a/b, the second one, with the same
\* output folder, went through to its write
C8_Witness ==
    /\ Len(prev.created) = 2 /\ prev.ensured
    /\ prev.folderPath = log.folderPath
    /\ Returned /\ log.outcome = "ok"

\* ---- C9, under Spec
\* C9: an invocation calls create or modify at most once, and only when
\* every collected file has been read and the merged content is the
\* rendering of all of them; an invocation that ended before its write leaves
\* every file of the vault as it was.
C9_SingleFinalWrite ==
    /\ log.writes <= 1
    /\ pc = "write" =>
          /\ log.writes = 1
          /\ log.reads = Len(log.files)
          /\ frame.mergedContent = render(vault, log.files)
    /\ pc \in {"createFolder", "read"} => log.writes = 0
    /\ (Returned /\ log.outcome \in {"notfound", "folderfail", "empty", "readfail"}) =>
          /\ log.writes = 0
          /\ filesOf(vault) = filesOf(log.vault0)

\* the invocation is at its write, over an output file that is there, with
\* several files read
C9_Witness ==
    /\ pc = "write" /\ Len(log.files) >= 2
    /\ hasFile(vault, frame.outputPath)

\* ---- C10, under Spec
\* C10: the files an invocation has selected and the path it writes are
\* those the settings in force at its start determine.
C10_ConfigSnapshot ==
    pc \in {"read", "write"} =>
        /\ frame.files =
              collectMarkdownFiles(vault, frame.folder, frame.outputPath,
                  parseExcluded(log.cfg0.excludedFiles), log.cfg0)
        /\ frame.outputPath =
              resolveOutputPath(resolveFolderPath(log.cfg0),
                  resolveOutputFileName(log.cfg0, log.date0))

\* ---- C4, under CollectSpec
\* C4 as stated: the collected files are in ascending order of their base
\* names.
C4_SortedByBaseName ==
    pc = "collected" =>
        \A i, j \in 1..Len(frame.files) :
            i < j => localeCompare(basename(frame.files[i]),
                                   basename(frame.files[j])) <= 0

\* C4 as amended: the collected files are in ascending order of their file
\* names, extension included, whatever the order of the listing.
C4_SortedByName ==
    pc = "collected" =>
        \A i, j \in 1..Len(frame.files) :
            i < j => localeCompare(nameOf(frame.files[i]),
                                   nameOf(frame.files[j])) <= 0

\* the sort moved a file: two collected files stand in the result in the
\* order opposite to the listing's
C4_Witness ==
    /\ pc = "collected"
    /\ \E i, j \in 1..Len(frame.files) :
          /\ i < j
          /\ localeCompare(nameOf(frame.files[i]), nameOf(frame.files[j])) < 0
          /\ \E k, l \in 1..Len(vault) :
                /\ k > l
                /\ vault[k].path = frame.files[i]
                /\ vault[l].path = frame.files[j]
                /\ parentOf(vault[k].path) = parentOf(vault[l].path)

\* ---- C6, under CollectSpec
\* C6: without recursive mode every collected file is a direct child of the
\* source folder.
C6_NonRecursiveDirectChildren ==
    (pc = "collected" /\ ~settings.recursive) =>
        \A i \in 1..Len(frame.files) : parentOf(frame.files[i]) = frame.folder

\* without recursive mode a file below a subfolder that passes every filter
\* was left out, while a direct child was collected
C6_Witness ==
    /\ pc = "collected" /\ ~settings.recursive
    /\ frame.files # <<>>
    /\ \E k \in 1..Len(vault) :
          /\ isEligible(vault[k], frame.outputPath,
                        parseExcluded(settings.excludedFiles),
                        settings.includeHidden)
          /\ parentOf(parentOf(vault[k].path)) = frame.folder
          /\ parentOf(vault[k].path) # frame.folder

\* ---- C7, under CollectSpec
\* the file lies in a folder the walk goes through
InScope(path) ==
    IF settings.recursive
    THEN \/ frame.folder = <<>>
         \/ startsWith(parentOf(path) \o <<"/">>, frame.folder \o <<"/">>)
    ELSE parentOf(path) = frame.folder

\* C7: a file of a folder the walk goes through is collected exactly when
\* its extension is md, its path is not the output path, no exclusion
\* pattern matches its path, and it is not hidden or hidden files are
\* included.
C7_SelectionIffFilters ==
    pc = "collected" =>
        \A k \in 1..Len(vault) :
            (~vault[k].isFolder /\ InScope(vault[k].path)) =>
                ( Among(vault[k].path, frame.files)
                  <=>
                  /\ extension(vault[k].path) = <<"m", "d">>
                  /\ vault[k].path # frame.outputPath
                  /\ \A q \in 1..Len(parseExcluded(settings.excludedFiles)) :
                        ~minimatch(vault[k].path,
                                   parseExcluded(settings.excludedFiles)[q])
                  /\ (settings.includeHidden
                      \/ Head(nameOf(vault[k].path)) # ".") )

\* with hidden files included a hidden file was collected, while a pattern
\* and the output path each kept a file out
C7_Witness ==
    /\ pc = "collected" /\ settings.includeHidden
    /\ \E k \in 1..Len(vault) :
          /\ Head(nameOf(vault[k].path)) = "."
          /\ Among(vault[k].path, frame.files)
    /\ \E k \in 1..Len(vault) :
          /\ InScope(vault[k].path)
          /\ vault[k].path = frame.outputPath
    /\ \E k \in 1..Len(vault) :
          /\ ~vault[k].isFolder /\ InScope(vault[k].path)
          /\ extension(vault[k].path) = <<"m", "d">>
          /\ vault[k].path # frame.outputPath
          /\ ~Among(vault[k].path, frame.files)

====
